---- MODULE Spec2Model ----
(***************************************************************************)
(* Model of sfx-batch: src/sfx_batch/main.py (the batch driver and the row *)
(* parameter resolver) and src/sfx_batch/utils.py (sanitize_filename and   *)
(* get_unique_filepath).                                                   *)
(*                                                                         *)
(* Text is a sequence of one-character strings, so that strip, isdigit,    *)
(* int, float and the regular expressions of the source are computed on    *)
(* characters.  A float is an exact decimal <<n, k>> standing for n/10^k,  *)
(* kept with no trailing zero; the cells used here have at most three      *)
(* digits, on which binary floats compare as the decimals do.              *)
(***************************************************************************)
EXTENDS Integers, Sequences, FiniteSets, TLC

VARIABLES pc, exit_code, argv, environ, dotenv, csv, resolved_api_key, sfx_client,
          out_dir_exists, header, prompt_col_idx, duration_col_idx,
          influence_col_idx, i, prompts_data, pos, generated_count,
          failed_count, files, calls, log,
          text_in, length_in, name_out, stem_in, paths_out

\* The arguments and the results of the functions of utils.py when they
\* are called on their own: the text and the max_length given to
\* sanitize_filename and what it returned, the base_filename given to
\* get_unique_filepath and the paths it returned, call after call.
utils_io == <<text_in, length_in, name_out, stem_in, paths_out>>

vars == <<pc, exit_code, argv, environ, dotenv, csv, resolved_api_key, sfx_client,
          out_dir_exists, header, prompt_col_idx, duration_col_idx,
          influence_col_idx, i, prompts_data, pos, generated_count,
          failed_count, files, calls, log, utils_io>>

\* Python's None, where a text may be absent.
None == <<"None">>

----------------------------------------------------------------------------
\* Characters and Python's str methods.

Digits == <<"0", "1", "2", "3", "4", "5", "6", "7", "8", "9">>

\* "sup2" stands for the one character U+00B2 (superscript two): str.isdigit
\* accepts it and int() rejects it.
IsDecimalCh(c) == \E d \in 1..10 : Digits[d] = c

IsDigitCh(c) == IsDecimalCh(c) \/ c = "sup2"

DigitVal(c) == (CHOOSE d \in 1..10 : Digits[d] = c) - 1

\* str.isdigit(): non-empty and every character a digit.
isdigit(s) == Len(s) > 0 /\ \A k \in 1..Len(s) : IsDigitCh(s[k])

RECURSIVE DecimalValue(_)
DecimalValue(s) ==
    IF s = <<>> THEN 0
    ELSE 10 * DecimalValue(SubSeq(s, 1, Len(s) - 1)) + DigitVal(s[Len(s)])

\* int(s) of a string that passed isdigit(): ValueError on a digit that is
\* no decimal digit.
int(s) ==
    IF \A k \in 1..Len(s) : IsDecimalCh(s[k])
    THEN [ok |-> TRUE, val |-> DecimalValue(s)]
    ELSE [ok |-> FALSE, val |-> 0]

RECURSIVE lstrip(_, _)
lstrip(s, chars) ==
    IF s # <<>> /\ s[1] \in chars THEN lstrip(Tail(s), chars) ELSE s

RECURSIVE rstrip(_, _)
rstrip(s, chars) ==
    IF s # <<>> /\ s[Len(s)] \in chars
    THEN rstrip(SubSeq(s, 1, Len(s) - 1), chars) ELSE s

\* str.strip(chars): every leading and trailing character of chars goes.
strip(s, chars) == rstrip(lstrip(s, chars), chars)

Whitespace == {" ", "\t"}

RECURSIVE Pow10(_)
Pow10(k) == IF k = 0 THEN 1 ELSE 10 * Pow10(k - 1)

RECURSIVE Normal(_)
Normal(v) ==
    IF v[2] > 0 /\ v[1] % 10 = 0 THEN Normal(<<v[1] \div 10, v[2] - 1>>) ELSE v

\* a <= b on decimals.
Leq(a, b) == a[1] * Pow10(b[2]) <= b[1] * Pow10(a[2])

\* float(s): optional sign, digits with at most one point and at least one
\* digit, surrounding whitespace ignored; ValueError otherwise.
float(s) ==
    LET t == strip(s, Whitespace)
        signed == t # <<>> /\ t[1] \in {"+", "-"}
        u == IF signed THEN Tail(t) ELSE t
        points == {k \in 1..Len(u) : u[k] = "."}
        point == IF points = {} THEN Len(u) + 1 ELSE CHOOSE k \in points : TRUE
        whole == SubSeq(u, 1, point - 1)
        frac == SubSeq(u, point + 1, Len(u))
        wellFormed == /\ Cardinality(points) <= 1
                      /\ Len(whole) + Len(frac) > 0
                      /\ \A k \in 1..Len(whole) : IsDecimalCh(whole[k])
                      /\ \A k \in 1..Len(frac) : IsDecimalCh(frac[k])
        mag == DecimalValue(whole \o frac)
    IN IF wellFormed
       THEN [ok |-> TRUE,
             val |-> Normal(<<IF signed /\ t[1] = "-" THEN 0 - mag ELSE mag,
                              Len(frac)>>)]
       ELSE [ok |-> FALSE, val |-> <<0, 0>>]

\* list.index(x): the first position (0-based) of x, ValueError if absent.
index(list, x) ==
    LET at == {k \in 1..Len(list) : list[k] = x}
    IN IF at = {} THEN [ok |-> FALSE, val |-> 0 - 1]
       ELSE [ok |-> TRUE, val |-> (CHOOSE k \in at : \A m \in at : k <= m) - 1]

----------------------------------------------------------------------------
\* utils.py: sanitize_filename.

LowerCase == <<"a", "b", "c", "d", "e", "f", "g", "h", "i", "j", "k", "l", "m", "n", "o", "p", "q", "r", "s", "t", "u", "v", "w", "x", "y", "z">>

UpperCase == <<"A", "B", "C", "D", "E", "F", "G", "H", "I", "J", "K", "L", "M", "N", "O", "P", "Q", "R", "S", "T", "U", "V", "W", "X", "Y", "Z">>

IsUpperCh(c) == \E k \in 1..26 : UpperCase[k] = c

IsLowerCh(c) == \E k \in 1..26 : LowerCase[k] = c

\* The characters the pattern \w matches: alphanumerics and the underscore.
IsWordCh(c) == IsLowerCh(c) \/ IsUpperCh(c) \/ IsDigitCh(c) \/ c = "_"

\* The character class [\\/:*?"<>|] of the first substitution.
Problematic == {"\\", "/", ":", "*", "?", "\"", "<", ">", "|"}

LowerCh(c) == IF IsUpperCh(c) THEN LowerCase[CHOOSE k \in 1..26 : UpperCase[k] = c] ELSE c

lower(s) == [k \in 1..Len(s) |-> LowerCh(s[k])]

\* str.replace(" ", "_") followed by re.sub(r'[\\/:*?"<>|]', "_", ...).
ReplaceProblematic(s) ==
    [k \in 1..Len(s) |-> IF s[k] = " " \/ s[k] \in Problematic THEN "_" ELSE s[k]]

\* A character class that keeps the hyphen too: [^\w._-].
KeptChWithHyphen(c) == IsWordCh(c) \/ c = "." \/ c = "_" \/ c = "-"

KeptCh(c) == IsWordCh(c) \/ c = "." \/ c = "_"

\* re.sub(r'[^\w._]', "", ...).
RemoveOthers(s) == SelectSeq(s, KeptCh)

RECURSIVE CollapseUnderscores(_)
\* re.sub(r'_{2,}', '_', ...).
CollapseUnderscores(s) ==
    IF Len(s) < 2 THEN s
    ELSE IF s[1] = "_" /\ s[2] = "_" THEN CollapseUnderscores(Tail(s))
    ELSE <<s[1]>> \o CollapseUnderscores(Tail(s))

TrimChars == {"_", ".", "-"}

\* s[a:b] with Python's treatment of negative and oversized bounds.
Slice(s, a, b) ==
    LET n == Len(s)
        lo0 == IF a < 0 THEN a + n ELSE a
        hi0 == IF b < 0 THEN b + n ELSE b
        lo == IF lo0 < 0 THEN 0 ELSE IF lo0 > n THEN n ELSE lo0
        hi == IF hi0 < 0 THEN 0 ELSE IF hi0 > n THEN n ELSE hi0
    IN SubSeq(s, lo + 1, hi)

Contains(s, c) == \E k \in 1..Len(s) : s[k] = c

\* s.rsplit('_', 1)[0]: what precedes the last underscore, s if there is none.
RSplitHead(s) ==
    IF Contains(s, "_")
    THEN SubSeq(s, 1, (CHOOSE k \in 1..Len(s) :
                          s[k] = "_" /\ \A m \in (k + 1)..Len(s) : s[m] # "_") - 1)
    ELSE s

UNNAMED_SFX == <<"u", "n", "n", "a", "m", "e", "d", "_", "s", "f", "x">>

GENERATED_SFX == <<"g", "e", "n", "e", "r", "a", "t", "e", "d", "_", "s", "f", "x">>

GENERATED_SFX_TRUNCATED == <<"g", "e", "n", "e", "r", "a", "t", "e", "d", "_", "s", "f", "x", "_", "t", "r", "u", "n", "c", "a", "t", "e", "d">>

\* The default of max_length.
DEFAULT_MAX_LENGTH == 150

\* The sanitising steps with no substitute for an empty result.
SanitizedNoFallback(prompt_text) ==
    CollapseUnderscores(strip(lower(RemoveOthers(ReplaceProblematic(prompt_text))),
                              TrimChars))

\* The text after the sanitising steps and before truncation.
Sanitized(prompt_text) ==
    LET cleaned == CollapseUnderscores(
                       strip(lower(RemoveOthers(ReplaceProblematic(prompt_text))),
                             TrimChars))
    IN IF cleaned = <<>> THEN GENERATED_SFX ELSE cleaned

Truncated(sanitized, max_length) ==
    IF Len(sanitized) > max_length
    THEN LET cut == Slice(sanitized, 0, max_length)
             back == IF Contains(Slice(cut, max_length - 10, max_length), "_")
                     THEN RSplitHead(cut) ELSE cut
         IN strip(back, TrimChars)
    ELSE sanitized

sanitize_filename(prompt_text, max_length) ==
    IF prompt_text = <<>> \/ prompt_text = None THEN UNNAMED_SFX
    ELSE LET result == Truncated(Sanitized(prompt_text), max_length)
         IN IF result = <<>> THEN GENERATED_SFX_TRUNCATED ELSE result

----------------------------------------------------------------------------
\* utils.py: get_unique_filepath.  A path is the file's name in output_dir.

RECURSIVE str(_)
\* str(n) of a natural number.
str(n) == IF n < 10 THEN <<Digits[n + 1]>> ELSE str(n \div 10) \o <<Digits[(n % 10) + 1]>>

MP3 == <<".", "m", "p", "3">>

\* The safety break of the collision loop.
COLLISION_LIMIT == 1000

\* uuid.uuid4().hex[:8]: any eight hexadecimal characters; two of them here.
HexSuffixes == {<<"0", "1", "2", "3", "4", "5", "6", "7">>,
                <<"8", "9", "a", "b", "c", "d", "e", "f">>}

\* The numbers of the loop starting at 0: base_filename_0 after base_filename.
CandidateFromZero(base_filename, extension, k) ==
    IF k = 0 THEN base_filename \o extension
    ELSE base_filename \o <<"_">> \o str(k - 1) \o extension

\* The path the loop tries at its k-th turn: base_filename with the
\* extension before the loop (k = 0), base_filename_k with it in the loop.
Candidate(base_filename, extension, k) ==
    IF k = 0 THEN base_filename \o extension
    ELSE base_filename \o <<"_">> \o str(k) \o extension

\* A loop of one turn: base_filename_1 is returned untested when
\* base_filename exists.
get_unique_filepath_one_turn(existing, base_filename, extension) ==
    IF Candidate(base_filename, extension, 0) \notin existing
    THEN [paths |-> {Candidate(base_filename, extension, 0)}, warned |-> FALSE]
    ELSE [paths |-> {Candidate(base_filename, extension, 1)}, warned |-> FALSE]

\* The while loop: existing is the set of names in output_dir.  The loop
\* tests candidate 0, then candidates 1, 2, ... while counter, which is one
\* more than the candidate's number, has not passed COLLISION_LIMIT: the
\* candidates tested are 0..COLLISION_LIMIT - 1, and the first one that
\* does not exist is returned.  When all exist the path is made of a
\* random suffix and returned untested, after a warning.  The result is
\* the set of paths the call can return and whether the warning is logged.
get_unique_filepath(existing, base_filename, extension) ==
    LET tested == 0..(COLLISION_LIMIT - 1)
        free(k) == Candidate(base_filename, extension, k) \notin existing
    IN IF \A k \in tested : ~free(k)
       THEN [paths |-> {base_filename \o <<"_">> \o h \o extension : h \in HexSuffixes},
             warned |-> TRUE]
       ELSE [paths |-> {Candidate(base_filename, extension,
                                  CHOOSE k \in tested :
                                      free(k) /\ \A m \in 0..(k - 1) : ~free(m))},
             warned |-> FALSE]

----------------------------------------------------------------------------
\* main.py: the row parameter resolver.

\* The literals of the per-row range checks, as decimals.
MIN_DURATION == <<5, 1>>

MAX_DURATION == <<22, 0>>

MIN_INFLUENCE == <<0, 0>>

MAX_INFLUENCE == <<1, 0>>

\* The defaults of --duration, --prompt-influence and --max-retries.
DEFAULT_DURATION == <<5, 0>>

DEFAULT_INFLUENCE == <<3, 1>>

DEFAULT_MAX_RETRIES == 3

Entry(level, msg, row) == [level |-> level, msg |-> msg, row |-> row]

\* row[idx] raises IndexError when the row has no field idx (0-based).
HasField(row, idx) == idx < Len(row)

\* A value out of range clamped to the nearest bound, not rejected.
RowDurationClamped(row, col_idx, duration) ==
    IF col_idx = 0 - 1 THEN [val |-> duration, warn |-> ""]
    ELSE IF ~HasField(row, col_idx)
         THEN [val |-> duration, warn |-> "duration_column_missing"]
    ELSE LET duration_str == strip(row[col_idx + 1], Whitespace)
             parsed == float(duration_str)
         IN IF duration_str = <<>> THEN [val |-> duration, warn |-> ""]
            ELSE IF ~parsed.ok
                 THEN [val |-> duration, warn |-> "invalid_duration_value"]
            ELSE IF Leq(MIN_DURATION, parsed.val) /\ Leq(parsed.val, MAX_DURATION)
                 THEN [val |-> parsed.val, warn |-> ""]
            ELSE [val |-> IF Leq(parsed.val, MIN_DURATION) THEN MIN_DURATION
                          ELSE MAX_DURATION,
                  warn |-> "duration_out_of_range"]

\* The duration of a row: the value and the warning logged ("" for none).
RowDuration(row, col_idx, duration) ==
    IF col_idx = 0 - 1 THEN [val |-> duration, warn |-> ""]
    ELSE IF ~HasField(row, col_idx)
         THEN [val |-> duration, warn |-> "duration_column_missing"]
    ELSE LET duration_str == strip(row[col_idx + 1], Whitespace)
             parsed == float(duration_str)
         IN IF duration_str = <<>> THEN [val |-> duration, warn |-> ""]
            ELSE IF ~parsed.ok
                 THEN [val |-> duration, warn |-> "invalid_duration_value"]
            ELSE IF Leq(MIN_DURATION, parsed.val) /\ Leq(parsed.val, MAX_DURATION)
                 THEN [val |-> parsed.val, warn |-> ""]
            ELSE [val |-> duration, warn |-> "duration_out_of_range"]

\* The influence cascade with the bounds of the duration left in.
RowInfluenceDurationRange(row, col_idx, prompt_influence) ==
    IF col_idx = 0 - 1 THEN [val |-> prompt_influence, warn |-> ""]
    ELSE IF ~HasField(row, col_idx)
         THEN [val |-> prompt_influence, warn |-> "influence_column_missing"]
    ELSE LET influence_str == strip(row[col_idx + 1], Whitespace)
             parsed == float(influence_str)
         IN IF influence_str = <<>> THEN [val |-> prompt_influence, warn |-> ""]
            ELSE IF ~parsed.ok
                 THEN [val |-> prompt_influence, warn |-> "invalid_influence_value"]
            ELSE IF Leq(MIN_DURATION, parsed.val) /\ Leq(parsed.val, MAX_DURATION)
                 THEN [val |-> parsed.val, warn |-> ""]
            ELSE [val |-> prompt_influence, warn |-> "influence_out_of_range"]

\* The influence cascade with no range check: any number is adopted.
RowInfluenceUnchecked(row, col_idx, prompt_influence) ==
    IF col_idx = 0 - 1 THEN [val |-> prompt_influence, warn |-> ""]
    ELSE IF ~HasField(row, col_idx)
         THEN [val |-> prompt_influence, warn |-> "influence_column_missing"]
    ELSE LET influence_str == strip(row[col_idx + 1], Whitespace)
             parsed == float(influence_str)
         IN IF influence_str = <<>> THEN [val |-> prompt_influence, warn |-> ""]
            ELSE IF ~parsed.ok
                 THEN [val |-> prompt_influence, warn |-> "invalid_influence_value"]
            ELSE [val |-> parsed.val, warn |-> ""]

\* The influence of a row, by the same cascade.
RowInfluence(row, col_idx, prompt_influence) ==
    IF col_idx = 0 - 1 THEN [val |-> prompt_influence, warn |-> ""]
    ELSE IF ~HasField(row, col_idx)
         THEN [val |-> prompt_influence, warn |-> "influence_column_missing"]
    ELSE LET influence_str == strip(row[col_idx + 1], Whitespace)
             parsed == float(influence_str)
         IN IF influence_str = <<>> THEN [val |-> prompt_influence, warn |-> ""]
            ELSE IF ~parsed.ok
                 THEN [val |-> prompt_influence, warn |-> "invalid_influence_value"]
            ELSE IF Leq(MIN_INFLUENCE, parsed.val) /\ Leq(parsed.val, MAX_INFLUENCE)
                 THEN [val |-> parsed.val, warn |-> ""]
            ELSE [val |-> prompt_influence, warn |-> "influence_out_of_range"]

Warnings(row_num, names) ==
    LET logged == SelectSeq(names, LAMBDA w : w # "")
    IN [k \in 1..Len(logged) |-> Entry("warning", logged[k], row_num)]

\* The row loop without the inner except IndexError clauses: a row too
\* short for a resolved column is skipped as malformed.
RowResultShortSkipped(row, current_row_num, p_idx, d_idx, i_idx, duration, prompt_influence) ==
    IF row = <<>>
    THEN [items |-> <<>>,
          logged |-> <<Entry("warning", "skipping_empty_row", current_row_num)>>]
    ELSE IF ~HasField(row, p_idx)
    THEN [items |-> <<>>,
          logged |-> <<Entry("warning", "skipping_malformed_row", current_row_num)>>]
    ELSE LET text_prompt == strip(row[p_idx + 1], {"\""})
             d == RowDuration(row, d_idx, duration)
             f == RowInfluence(row, i_idx, prompt_influence)
         IN IF text_prompt = <<>>
            THEN [items |-> <<>>,
                  logged |-> <<Entry("warning", "skipping_empty_prompt", current_row_num)>>]
            ELSE IF ~HasField(row, d_idx) \/ ~HasField(row, i_idx)
            THEN [items |-> <<>>,
                  logged |-> <<Entry("warning", "skipping_malformed_row", current_row_num)>>]
            ELSE [items |-> <<[text |-> text_prompt, row_num |-> current_row_num,
                               duration |-> d.val, influence |-> f.val]>>,
                  logged |-> Warnings(current_row_num, <<d.warn, f.warn>>)]

\* The row loop without the test of the stripped prompt: a row whose
\* prompt is empty gives a work item.
RowResultEmptyPromptKept(row, current_row_num, p_idx, d_idx, i_idx, duration, prompt_influence) ==
    IF row = <<>>
    THEN [items |-> <<>>,
          logged |-> <<Entry("warning", "skipping_empty_row", current_row_num)>>]
    ELSE IF ~HasField(row, p_idx)
    THEN [items |-> <<>>,
          logged |-> <<Entry("warning", "skipping_malformed_row", current_row_num)>>]
    ELSE LET text_prompt == strip(row[p_idx + 1], {"\""})
             d == RowDuration(row, d_idx, duration)
             f == RowInfluence(row, i_idx, prompt_influence)
         IN [items |-> <<[text |-> text_prompt, row_num |-> current_row_num,
                          duration |-> d.val, influence |-> f.val]>>,
             logged |-> Warnings(current_row_num, <<d.warn, f.warn>>)]

\* One iteration of the row loop: what is appended to prompts_data and
\* what is logged.
RowResult(row, current_row_num, p_idx, d_idx, i_idx, duration, prompt_influence) ==
    IF row = <<>>
    THEN [items |-> <<>>,
          logged |-> <<Entry("warning", "skipping_empty_row", current_row_num)>>]
    ELSE IF ~HasField(row, p_idx)
    THEN [items |-> <<>>,
          logged |-> <<Entry("warning", "skipping_malformed_row", current_row_num)>>]
    ELSE LET text_prompt == strip(row[p_idx + 1], {"\""})
             d == RowDuration(row, d_idx, duration)
             f == RowInfluence(row, i_idx, prompt_influence)
         IN IF text_prompt = <<>>
            THEN [items |-> <<>>,
                  logged |-> <<Entry("warning", "skipping_empty_prompt", current_row_num)>>]
            ELSE [items |-> <<[text |-> text_prompt, row_num |-> current_row_num,
                               duration |-> d.val, influence |-> f.val]>>,
                  logged |-> Warnings(current_row_num, <<d.warn, f.warn>>)]

\* A bounds check that admits the header length.
ColumnIndexInclusive(ref, hdr) ==
    IF isdigit(ref)
    THEN IF ~int(ref).ok THEN [idx |-> 0 - 1, err |-> "invalid_index"]
         ELSE IF int(ref).val <= Len(hdr) THEN [idx |-> int(ref).val, err |-> ""]
         ELSE [idx |-> 0 - 1, err |-> "index_out_of_range"]
    ELSE IF index(hdr, ref).ok THEN [idx |-> index(hdr, ref).val, err |-> ""]
         ELSE [idx |-> 0 - 1, err |-> "name_not_found"]

\* An index out of range clamped to the last column, not rejected.
ColumnIndexClamped(ref, hdr) ==
    IF isdigit(ref)
    THEN IF ~int(ref).ok THEN [idx |-> 0 - 1, err |-> "invalid_index"]
         ELSE IF int(ref).val < Len(hdr) THEN [idx |-> int(ref).val, err |-> ""]
         ELSE [idx |-> Len(hdr) - 1, err |-> ""]
    ELSE IF index(hdr, ref).ok THEN [idx |-> index(hdr, ref).val, err |-> ""]
         ELSE [idx |-> 0 - 1, err |-> "name_not_found"]

\* The resolution of a column reference against the header: the index
\* found, or what went wrong.
ColumnIndex(ref, hdr) ==
    IF isdigit(ref)
    THEN IF ~int(ref).ok THEN [idx |-> 0 - 1, err |-> "invalid_index"]
         ELSE IF int(ref).val < Len(hdr) THEN [idx |-> int(ref).val, err |-> ""]
         ELSE [idx |-> 0 - 1, err |-> "index_out_of_range"]
    ELSE IF index(hdr, ref).ok THEN [idx |-> index(hdr, ref).val, err |-> ""]
         ELSE [idx |-> 0 - 1, err |-> "name_not_found"]

----------------------------------------------------------------------------
\* main.py: the batch driver.

\* raise typer.Exit(code=1) after logging.
Fatal(entries) ==
    /\ pc' = "done"
    /\ exit_code' = 1
    /\ log' = log \o entries

\* The truth value of a text: None and the empty text are false.
Truthy(s) == s # None /\ s # <<>>

\* A key used when none is configured.
get_api_key_or_default(api_key_arg, env) ==
    IF Truthy(api_key_arg) THEN api_key_arg
    ELSE IF Truthy(env) THEN env
    ELSE <<"d", "e", "m", "o">>

\* get_api_key: the --api-key argument, else the environment variable.
get_api_key(api_key_arg, env) ==
    IF Truthy(api_key_arg) THEN api_key_arg
    ELSE IF Truthy(env) THEN env
    ELSE None

\* load_dotenv(override=True): the .env file wins over the environment.
load_dotenv_override(env, file) == IF file # None THEN file ELSE env

\* load_dotenv(): a variable of the .env file is set only if the
\* environment does not have it.
load_dotenv(env, file) == IF env = None /\ file # None THEN file ELSE env

\* Lines 183-194: load the .env file, resolve the API key.
ResolveApiKey ==
    /\ pc = "start"
    /\ environ' = load_dotenv(environ, dotenv)
    /\ resolved_api_key' = get_api_key(argv.api_key, environ')
    /\ IF ~Truthy(resolved_api_key')
       THEN Fatal(<<Entry("error", "api_key_not_found", 0),
                    Entry("error", "exiting_missing_api_key", 0)>>)
       ELSE pc' = "mkdir" /\ UNCHANGED <<exit_code, log>>
    /\ UNCHANGED <<argv, dotenv, csv, sfx_client, out_dir_exists, header,
                   prompt_col_idx, duration_col_idx, influence_col_idx, i,
                   prompts_data, pos, generated_count, failed_count, files, calls>>
    /\ UNCHANGED utils_io

\* Lines 197-202: output_dir.mkdir(parents=True, exist_ok=True).
MakeOutputDir ==
    /\ pc = "mkdir"
    /\ \E ok \in BOOLEAN :
          IF ok
          THEN /\ out_dir_exists' = TRUE
               /\ pc' = "client"
               /\ UNCHANGED <<exit_code, log>>
          ELSE /\ Fatal(<<Entry("error", "could_not_create_output_dir", 0)>>)
               /\ UNCHANGED out_dir_exists
    /\ UNCHANGED <<argv, environ, dotenv, csv, resolved_api_key, sfx_client, header,
                   prompt_col_idx, duration_col_idx, influence_col_idx, i,
                   prompts_data, pos, generated_count, failed_count, files, calls>>
    /\ UNCHANGED utils_io

ClientErrors == {"ElevenLabsAPIKeyError", "ImportError", "Exception"}

\* Lines 218-237: construct the client, zero the counters.
InitClient ==
    /\ pc = "client"
    /\ \E outcome \in {"ok"} \cup ClientErrors :
          IF outcome = "ok"
          THEN /\ sfx_client' = {[api_key |-> resolved_api_key,
                                  max_retries |-> argv.max_retries]}
               /\ generated_count' = 0
               /\ failed_count' = 0
               /\ prompts_data' = <<>>
               /\ pc' = "header"
               /\ UNCHANGED <<exit_code, log>>
          ELSE /\ Fatal(<<Entry("error", outcome, 0)>>)
               /\ UNCHANGED <<sfx_client, generated_count, failed_count, prompts_data>>
    /\ UNCHANGED <<argv, environ, dotenv, csv, resolved_api_key, out_dir_exists,
                   header, prompt_col_idx, duration_col_idx, influence_col_idx, i,
                   pos, files, calls>>
    /\ UNCHANGED utils_io

\* What the except clauses of lines 385-392 log before exiting with 1.
CsvFailure(entries) ==
    Fatal(entries \o <<Entry("error", "error_processing_csv", 0)>>)

\* The header read with no test of what next(reader, None) gave on a
\* file that has a first line.
ReadHeaderUntested ==
    /\ pc = "header"
    /\ IF csv = <<>>
       THEN /\ CsvFailure(<<Entry("error", "csv_empty_or_no_header", 0)>>)
            /\ UNCHANGED header
       ELSE /\ header' = csv[1]
            /\ pc' = "prompt_col"
            /\ UNCHANGED <<exit_code, log>>
    /\ UNCHANGED <<argv, environ, dotenv, csv, resolved_api_key, sfx_client,
                   out_dir_exists, prompt_col_idx, duration_col_idx,
                   influence_col_idx, i, prompts_data, pos, generated_count,
                   failed_count, files, calls>>
    /\ UNCHANGED utils_io

\* Lines 240-247: open the file and read the header.  next(reader, None)
\* gives None on an empty file and [] on an empty first line; the header
\* is falsy in both cases.
ReadHeader ==
    /\ pc = "header"
    /\ IF csv = <<>> \/ csv[1] = <<>>
       THEN /\ CsvFailure(<<Entry("error", "csv_empty_or_no_header", 0)>>)
            /\ UNCHANGED header
       ELSE /\ header' = csv[1]
            /\ pc' = "prompt_col"
            /\ UNCHANGED <<exit_code, log>>
    /\ UNCHANGED <<argv, environ, dotenv, csv, resolved_api_key, sfx_client,
                   out_dir_exists, prompt_col_idx, duration_col_idx,
                   influence_col_idx, i, prompts_data, pos, generated_count,
                   failed_count, files, calls>>
    /\ UNCHANGED utils_io

\* open() or the reader raises: FileNotFoundError (line 385) or any other
\* exception (line 388), while opening or at any record.
CsvRaises ==
    /\ pc \in {"header", "rows"}
    /\ \E e \in {"input_csv_not_found", "error_processing_csv"} :
          /\ e = "input_csv_not_found" => pc = "header"
          /\ Fatal(<<Entry("error", e, 0)>>)
    /\ UNCHANGED <<argv, environ, dotenv, csv, resolved_api_key, sfx_client,
                   out_dir_exists, header, prompt_col_idx, duration_col_idx,
                   influence_col_idx, i, prompts_data, pos, generated_count,
                   failed_count, files, calls>>
    /\ UNCHANGED utils_io

\* Lines 249-271: the mandatory prompt column.
ResolvePromptColumn ==
    /\ pc = "prompt_col"
    /\ LET r == ColumnIndex(argv.prompt_column, header)
       IN IF r.err # ""
          THEN /\ CsvFailure(<<Entry("error", "prompt_column_" \o r.err, 0)>>)
               /\ UNCHANGED prompt_col_idx
          ELSE /\ prompt_col_idx' = r.idx
               /\ pc' = "duration_col"
               /\ UNCHANGED <<exit_code, log>>
    /\ UNCHANGED <<argv, environ, dotenv, csv, resolved_api_key, sfx_client,
                   out_dir_exists, header, duration_col_idx, influence_col_idx, i,
                   prompts_data, pos, generated_count, failed_count, files, calls>>
    /\ UNCHANGED utils_io

\* Lines 274-291: the optional duration column.
ResolveDurationColumn ==
    /\ pc = "duration_col"
    /\ LET r == ColumnIndex(argv.duration_column, header)
       IN IF Truthy(argv.duration_column)
          THEN /\ duration_col_idx' = r.idx
               /\ log' = IF r.err # ""
                         THEN Append(log, Entry("warning", "duration_column_" \o r.err, 0))
                         ELSE log
          ELSE /\ duration_col_idx' = 0 - 1
               /\ UNCHANGED log
    /\ pc' = "influence_col"
    /\ UNCHANGED <<exit_code, argv, environ, dotenv, csv, resolved_api_key,
                   sfx_client, out_dir_exists, header, prompt_col_idx,
                   influence_col_idx, i, prompts_data, pos, generated_count,
                   failed_count, files, calls>>
    /\ UNCHANGED utils_io

\* Lines 293-310: the optional influence column.
ResolveInfluenceColumn ==
    /\ pc = "influence_col"
    /\ LET r == ColumnIndex(argv.influence_column, header)
       IN IF Truthy(argv.influence_column)
          THEN /\ influence_col_idx' = r.idx
               /\ log' = IF r.err # ""
                         THEN Append(log, Entry("warning", "influence_column_" \o r.err, 0))
                         ELSE log
          ELSE /\ influence_col_idx' = 0 - 1
               /\ UNCHANGED log
    /\ i' = 0
    /\ pc' = "rows"
    /\ UNCHANGED <<exit_code, argv, environ, dotenv, csv, resolved_api_key,
                   sfx_client, out_dir_exists, header, prompt_col_idx,
                   duration_col_idx, prompts_data, pos, generated_count,
                   failed_count, files, calls>>
    /\ UNCHANGED utils_io

\* The data records of the file: what follows the header.
DataRows == Len(csv) - 1

\* Row numbers that do not count the header.
CurrentRowNumNoHeader(n) == n + 1

\* current_row_num of iteration n of enumerate(reader): the header is row 1.
CurrentRowNum(n) == n + 2

\* Lines 312-383: one iteration of the row loop, on data record i (0-based).
ReadRow ==
    /\ pc = "rows"
    /\ i < DataRows
    /\ LET r == RowResult(csv[i + 2], CurrentRowNum(i), prompt_col_idx, duration_col_idx,
                          influence_col_idx, argv.duration, argv.prompt_influence)
       IN /\ prompts_data' = prompts_data \o r.items
          /\ log' = log \o r.logged
    /\ i' = i + 1
    /\ UNCHANGED <<pc, exit_code, argv, environ, dotenv, csv, resolved_api_key,
                   sfx_client, out_dir_exists, header, prompt_col_idx,
                   duration_col_idx, influence_col_idx, pos, generated_count,
                   failed_count, files, calls>>
    /\ UNCHANGED utils_io

\* The end of the rows with an empty queue taken for an error.
EndOfRowsNoPromptsFatal ==
    /\ pc = "rows"
    /\ i = DataRows
    /\ IF prompts_data = <<>>
       THEN /\ pc' = "done"
            /\ exit_code' = 1
            /\ log' = Append(log, Entry("error", "no_valid_prompts", 0))
            /\ UNCHANGED pos
       ELSE /\ pc' = "process"
            /\ pos' = 1
            /\ log' = Append(log, Entry("info", "found_prompts", Len(prompts_data)))
            /\ UNCHANGED exit_code
    /\ UNCHANGED <<argv, environ, dotenv, csv, resolved_api_key, sfx_client,
                   out_dir_exists, header, prompt_col_idx, duration_col_idx,
                   influence_col_idx, i, prompts_data, generated_count,
                   failed_count, files, calls>>
    /\ UNCHANGED utils_io

\* Lines 394-398: the reader is exhausted.
EndOfRows ==
    /\ pc = "rows"
    /\ i = DataRows
    /\ IF prompts_data = <<>>
       THEN /\ pc' = "done"
            /\ exit_code' = 0
            /\ log' = Append(log, Entry("info", "no_valid_prompts", 0))
            /\ UNCHANGED pos
       ELSE /\ pc' = "process"
            /\ pos' = 1
            /\ log' = Append(log, Entry("info", "found_prompts", Len(prompts_data)))
            /\ UNCHANGED exit_code
    /\ UNCHANGED <<argv, environ, dotenv, csv, resolved_api_key, sfx_client,
                   out_dir_exists, header, prompt_col_idx, duration_col_idx,
                   influence_col_idx, i, prompts_data, generated_count,
                   failed_count, files, calls>>
    /\ UNCHANGED utils_io

\* The bytes the collaborator returns to its n-th call.
Audio(n) == <<"audio", n>>

\* What a file holds when the write or the flush at close failed: some
\* part of those bytes, possibly none.
Partial(n) == <<"partial", n>>

\* The file at path holds content, created or truncated by open(path, "wb").
WriteFile(dir, path, content) ==
    [p \in DOMAIN dir \cup {path} |-> IF p = path THEN content ELSE dir[p]]

\* What generate_sound_effect can raise: the four exceptions the driver
\* names and any other one.
GenerateErrors == {"ElevenLabsAPIKeyError", "ElevenLabsRateLimitError",
                   "ElevenLabsParameterError", "ElevenLabsGenerationError",
                   "ElevenLabsPermissionError"}

\* The except clauses without the last one, except Exception.
HandlersNamedOnly == <<"ElevenLabsAPIKeyError", "ElevenLabsRateLimitError",
                       "ElevenLabsParameterError", "ElevenLabsGenerationError">>

\* The except clauses of the processing loop, in order.
Handlers == <<"ElevenLabsAPIKeyError", "ElevenLabsRateLimitError",
              "ElevenLabsParameterError", "ElevenLabsGenerationError", "Exception">>

\* The clause that handles exception exc: the first one naming its class
\* or Exception, "" when there is none and exc leaves the loop.
Handler(exc) ==
    LET at == {k \in 1..Len(Handlers) : Handlers[k] = exc \/ Handlers[k] = "Exception"}
    IN IF at = {} THEN "" ELSE Handlers[CHOOSE k \in at : \A m \in at : k <= m]

\* Where the body of the try block can end: with the file written and
\* closed, with an exception of generate_sound_effect, or with an OSError
\* of open, of write, or of the close that leaves the with block.
Outcomes == {"ok", "open_raises", "write_raises", "close_raises"} \cup GenerateErrors

\* The exception an outcome raises.
Raised(outcome) ==
    IF outcome \in GenerateErrors THEN outcome ELSE "OSError"

\* generated_count += 1 is the last statement of the with block.
SavedCount(generated, outcome) ==
    IF outcome \in {"ok", "close_raises"} THEN generated + 1 ELSE generated

\* Every except clause has failed_count += 1.
FailedCount(failed, outcome) ==
    IF outcome # "ok" /\ Handler(Raised(outcome)) # "" THEN failed + 1 ELSE failed

\* The output directory after the try block.
FilesAfter(dir, path, n, outcome) ==
    CASE outcome = "ok" -> WriteFile(dir, path, Audio(n))
      [] outcome \in {"write_raises", "close_raises"} -> WriteFile(dir, path, Partial(n))
      [] OTHER -> dir

\* Lines 400-448: one iteration of the processing loop, on item pos.  An
\* exception no clause handles leaves main: the process exits with 1.
ProcessItem ==
    /\ pc = "process"
    /\ pos <= Len(prompts_data)
    /\ LET item == prompts_data[pos]
           n == Len(calls) + 1
           base_filename == sanitize_filename(item.text, DEFAULT_MAX_LENGTH)
           unique == get_unique_filepath(DOMAIN files, base_filename, MP3)
       IN /\ calls' = Append(calls, [text |-> item.text,
                                     duration_seconds |-> item.duration,
                                     prompt_influence |-> item.influence])
          /\ \E outcome \in Outcomes, output_file_path \in unique.paths :
                LET h == Handler(Raised(outcome))
                    generated == outcome \notin GenerateErrors
                    warned == IF generated /\ unique.warned
                              THEN <<Entry("warning", "more_than_1000_collisions", 0)>>
                              ELSE <<>>
                    saved == IF outcome \in {"ok", "close_raises"}
                             THEN <<Entry("info", "saved", item.row_num)>>
                             ELSE <<>>
                    failed == IF outcome # "ok" /\ h # ""
                              THEN <<Entry("error", h, item.row_num)>>
                              ELSE <<>>
                IN /\ files' = FilesAfter(files, output_file_path, n, outcome)
                   /\ generated_count' = SavedCount(generated_count, outcome)
                   /\ failed_count' = FailedCount(failed_count, outcome)
                   /\ log' = log \o warned \o saved \o failed
                   /\ IF outcome # "ok" /\ h = ""
                      THEN pc' = "done" /\ exit_code' = 1
                      ELSE UNCHANGED <<pc, exit_code>>
    /\ pos' = pos + 1
    /\ UNCHANGED <<argv, environ, dotenv, csv, resolved_api_key,
                   sfx_client, out_dir_exists, header, prompt_col_idx,
                   duration_col_idx, influence_col_idx, i, prompts_data>>
    /\ UNCHANGED utils_io

\* An exit code that reports failed items.
ReportExitCodeByFailures(generated, failed) == IF failed > 0 THEN 1 ELSE 0

\* main returns: the process exits with 0, whatever the counters are.
ReportExitCode(generated, failed) == 0

\* Lines 450-453: the summary; main returns and the process exits with 0.
Report ==
    /\ pc = "process"
    /\ pos > Len(prompts_data)
    /\ pc' = "done"
    /\ exit_code' = ReportExitCode(generated_count, failed_count)
    /\ log' = log \o <<Entry("info", "generated", generated_count),
                       Entry("info", "failed", failed_count)>>
    /\ UNCHANGED <<argv, environ, dotenv, csv, resolved_api_key, sfx_client,
                   out_dir_exists, header, prompt_col_idx, duration_col_idx,
                   influence_col_idx, i, prompts_data, pos, generated_count,
                   failed_count, files, calls>>
    /\ UNCHANGED utils_io

----------------------------------------------------------------------------
\* The inputs of a run: the command line, the environment, the .env file,
\* the records csv.reader yields and the content of the output directory.

\* The most data records of an input file.
MaxRows == 2

SeqsUpTo(S, n) == UNION {[1..k -> S] : k \in 0..n}

KeyArg == <<"k", "c">>

KeyEnv == <<"k", "e">>

KeyDotenv == <<"k", "d">>

HeaderTDI == <<<<"t">>, <<"d">>, <<"i">>>>

\* A header whose first column is named "1".
Header1T == <<<<"1">>, <<"t">>>>

Empty == <<>>

Blank == <<" ">>

PromptA == <<"a">>

\* The cell "A b" between double quotes.
PromptQuoted == <<"\"", "A", " ", "b", "\"">>

Unparseable == <<"x">>

\* A cell of two double quotes and nothing else.
QuotesOnly == <<"\"", "\"">>

\* The cell a" of a letter and one double quote after it.
PromptInches == <<"a", "\"">>

\* The data records of the driver's runs: an empty record, a record of
\* the prompt alone, a record whose prompt is quotes alone, a record whose
\* prompt ends with a quote, a full record, a record with no prompt, and a
\* record with an unparseable duration and an influence above the range.
Rows == {<<>>,
         <<PromptA>>,
         <<QuotesOnly>>,
         <<PromptInches>>,
         <<PromptQuoted, <<"2", ".", "5">>, <<"0", ".", "7">>>>,
         <<Empty, <<"2", ".", "5">>, <<"0", ".", "7">>>>,
         <<PromptA, Unparseable, <<"1", ".", "5">>>>}

Old == <<"old", 0>>

\* The output directory before the run: empty, or holding a.mp3.
InitialDirs == {<<>>, [p \in {PromptA \o MP3} |-> Old]}

BaseArgs ==
    [api_key |-> None, prompt_column |-> <<"t">>, duration_column |-> <<"d">>,
     influence_column |-> <<"2">>, duration |-> DEFAULT_DURATION,
     prompt_influence |-> DEFAULT_INFLUENCE, max_retries |-> DEFAULT_MAX_RETRIES]

Input(a, e, d, c, f) == [argv |-> a, environ |-> e, dotenv |-> d, csv |-> c, files |-> f]

PromptRefs == {<<"0">>, <<"1">>, <<"2">>, <<"3">>, <<"sup2">>, <<"t">>, <<"x">>}

OptionalRefs == {None, <<"1">>, <<"2">>, <<"7">>, <<"sup2">>, <<"d">>, <<"i">>, <<"x">>}

\* The file of the runs that vary the column references.
TwoRows == <<<<PromptQuoted, <<"2", ".", "5">>, <<"0", ".", "7">>>>,
             <<PromptA, Unparseable>>>>

\* Every file of at most MaxRows records, with or without a header.
Csvs ==
    {<<>>} \cup {<<h>> \o rows : h \in {<<>>, HeaderTDI}, rows \in SeqsUpTo(Rows, MaxRows)}

\* The state at the entry of main, on input in.
Start(in) ==
    /\ pc = "start"
    /\ exit_code = 0 - 1
    /\ argv = in.argv
    /\ environ = in.environ
    /\ dotenv = in.dotenv
    /\ csv = in.csv
    /\ files = in.files
    /\ resolved_api_key = None
    /\ sfx_client = {}
    /\ out_dir_exists = (in.files # <<>>)
    /\ header = <<>>
    /\ prompt_col_idx = 0 - 1
    /\ duration_col_idx = 0 - 1
    /\ influence_col_idx = 0 - 1
    /\ i = 0
    /\ prompts_data = <<>>
    /\ pos = 0
    /\ generated_count = 0
    /\ failed_count = 0
    /\ calls = <<>>
    /\ log = <<>>
    /\ text_in = None
    /\ length_in = DEFAULT_MAX_LENGTH
    /\ name_out = None
    /\ stem_in = None
    /\ paths_out = <<>>

\* Every source of the API key, on one file; the environment variable is
\* absent, set to the empty text, or set to a key.
InitKeys ==
    \E k \in {None, KeyArg}, e \in {None, <<>>, KeyEnv}, d \in {None, KeyDotenv} :
        Start(Input([BaseArgs EXCEPT !.api_key = k], e, d,
                    <<HeaderTDI, <<PromptA>>>>, <<>>))

\* Every column reference, on two headers, with other global defaults.
InitColumns ==
    \E p \in PromptRefs, d \in OptionalRefs, f \in {None, <<"2">>, <<"i">>, <<"7">>},
       h \in {HeaderTDI, Header1T} :
        Start(Input([BaseArgs EXCEPT !.prompt_column = p, !.duration_column = d,
                                     !.influence_column = f, !.duration = <<6, 0>>,
                                     !.prompt_influence = <<6, 1>>],
                    KeyEnv, None, <<h>> \o TwoRows, <<>>))

\* Every file, into an empty and a non-empty output directory.
InitFiles ==
    \E c \in Csvs, f \in InitialDirs : Start(Input(BaseArgs, KeyEnv, None, c, f))

\* An output directory where a.mp3 and a_1.mp3 .. a_999.mp3 exist, and one
\* file whose name ends in eight hexadecimal digits.
CrowdedDir ==
    [p \in {Candidate(PromptA, MP3, k) : k \in 0..(COLLISION_LIMIT - 1)}
            \cup {PromptA \o <<"_", "0", "1", "2", "3", "4", "5", "6", "7">> \o MP3} |-> Old]

\* One and two records of the same prompt, into the crowded directory.
InitCrowded ==
    \E c \in {<<HeaderTDI, <<PromptA>>>>, <<HeaderTDI, <<PromptA>>, <<PromptA>>>>} :
        Start(Input(BaseArgs, KeyEnv, None, c, CrowdedDir))

Init == InitKeys \/ InitColumns \/ InitFiles \/ InitCrowded

Loading ==
    \/ ResolveApiKey
    \/ MakeOutputDir
    \/ InitClient
    \/ ReadHeader
    \/ CsvRaises
    \/ ResolvePromptColumn
    \/ ResolveDurationColumn
    \/ ResolveInfluenceColumn
    \/ ReadRow
    \/ EndOfRows

Next ==
    \/ Loading
    \/ ProcessItem
    \/ Report

Spec == Init /\ [][Next]_vars

----------------------------------------------------------------------------
\* The loading phase alone, on files whose duration and influence cells
\* take every form: empty, blank, unparseable, on a bound of a range,
\* inside a range, outside it, and missing.

Half == <<"0", ".", "5">>

TwentyTwo == <<"2", "2">>

PaddedOne == <<" ", "1", " ">>

Zero == <<"0">>

TwentyThree == <<"2", "3">>

Cells == {Empty, Blank, Unparseable, Half, TwentyTwo, PaddedOne, Zero, TwentyThree}

\* The cells that go with every cell of the other column: one inside both
\* ranges, one outside both.
Companions == {Half, TwentyThree}

CellRows ==
    {<<PromptA, c, o>> : c \in Cells, o \in Companions}
    \cup {<<PromptA, o, c>> : c \in Cells, o \in Companions}
    \cup {<<PromptA, o>> : o \in Companions}
    \cup {<<PromptA>>}

\* The duration column before the influence column, and after it.
InitCells ==
    \E rows \in SeqsUpTo(CellRows, MaxRows), swapped \in BOOLEAN :
        Start(Input([BaseArgs EXCEPT
                        !.duration_column = IF swapped THEN <<"2">> ELSE <<"d">>,
                        !.influence_column = IF swapped THEN <<"d">> ELSE <<"2">>],
                    KeyEnv, None, <<HeaderTDI>> \o rows, <<>>))

SpecLoading == InitCells /\ [][Loading]_vars

----------------------------------------------------------------------------
\* The functions of utils.py called on their own.

\* The driver at rest, with dir as the output directory.
Apart(dir) ==
    /\ exit_code = 0 - 1
    /\ argv = BaseArgs
    /\ environ = None
    /\ dotenv = None
    /\ csv = <<>>
    /\ files = dir
    /\ resolved_api_key = None
    /\ sfx_client = {}
    /\ out_dir_exists = TRUE
    /\ header = <<>>
    /\ prompt_col_idx = 0 - 1
    /\ duration_col_idx = 0 - 1
    /\ influence_col_idx = 0 - 1
    /\ i = 0
    /\ prompts_data = <<>>
    /\ pos = 0
    /\ generated_count = 0
    /\ failed_count = 0
    /\ calls = <<>>
    /\ log = <<>>

\* The most characters of a text given to sanitize_filename.
MaxText == 3

\* An upper-case and a lower-case letter, a digit, a space, a character
\* the first substitution replaces, and the three characters strip removes.
TextChars == {"A", "b", "1", " ", "?", "_", ".", "-"}

\* Two longer texts with hyphens: "a.-_b" and "---test---".
HyphenTexts == {<<"a", ".", "-", "_", "b">>,
                <<"-", "-", "-", "t", "e", "s", "t", "-", "-", "-">>}

\* Texts longer than the small values of max_length, with an underscore
\* near the start, near the end, and with none: "b_bbbbbb", "bbbbb_bb"
\* and "bbbbbbbb".
LongTexts == {<<"b", "_", "b", "b", "b", "b", "b", "b">>,
              <<"b", "b", "b", "b", "b", "_", "b", "b">>,
              <<"b", "b", "b", "b", "b", "b", "b", "b">>}

Texts == SeqsUpTo(TextChars, MaxText) \cup {None} \cup HyphenTexts \cup LongTexts

\* The values of max_length: the default, one that cuts "generated_sfx",
\* and some that cut the texts.
MaxLengths == {0, 1, 2, 5, 6, 12, DEFAULT_MAX_LENGTH}

InitSanitize ==
    /\ pc = "sanitize"
    /\ Apart(<<>>)
    /\ text_in \in Texts
    /\ length_in \in MaxLengths
    /\ name_out = None
    /\ stem_in = None
    /\ paths_out = <<>>

\* sanitize_filename(text_in, length_in) is called and returns.
CallSanitize ==
    /\ pc = "sanitize"
    /\ name_out' = sanitize_filename(text_in, length_in)
    /\ pc' = "sanitized"
    /\ UNCHANGED <<exit_code, argv, environ, dotenv, csv, resolved_api_key, sfx_client,
                   out_dir_exists, header, prompt_col_idx, duration_col_idx,
                   influence_col_idx, i, prompts_data, pos, generated_count,
                   failed_count, files, calls, log>>
    /\ UNCHANGED <<text_in, length_in, stem_in, paths_out>>

SpecSanitize == InitSanitize /\ [][CallSanitize]_vars

\* The most calls of get_unique_filepath in a run of calls.
MaxCalls == 3

PromptB == <<"b">>

\* What a file created after a call holds.
Created == <<"new", 0>>

\* The names get_unique_filepath tests for the stem "a", all of them.
AllTested == {Candidate(PromptA, MP3, k) : k \in 0..(COLLISION_LIMIT - 1)}

\* The output directory before the calls: the files of some names around
\* the stem "a", or of every name the loop tests, less none or one of them.
UniqueDirs ==
    {[p \in names |-> Old] :
        names \in SUBSET {PromptA \o MP3, Candidate(PromptA, MP3, 1),
                          Candidate(PromptA, MP3, 2), PromptB \o MP3}}
    \cup {[p \in AllTested \ gap |-> Old] :
             gap \in {{}, {Candidate(PromptA, MP3, 500)},
                      {Candidate(PromptA, MP3, COLLISION_LIMIT - 1)}}}

\* The paths n calls for the stem "a" returned in a directory that was
\* empty, each one created before the next call: a.mp3, a_1.mp3, ...,
\* a_(n-1).mp3.
PathsAfterCalls(n) == [k \in 1..n |-> Candidate(PromptA, MP3, k - 1)]

\* The directory after those calls.
FilesAfterCalls(n) == [p \in {Candidate(PromptA, MP3, k) : k \in 0..(n - 1)} |-> Created]

\* The calls a run of calls starts after: none, or so many that the next
\* ones reach the end of the loop.
CallsBefore == {0, COLLISION_LIMIT - 2}

InitUnique ==
    /\ pc = "unique"
    /\ text_in = None
    /\ length_in = DEFAULT_MAX_LENGTH
    /\ name_out = None
    /\ \/ \E dir \in UniqueDirs :
             /\ Apart(dir)
             /\ stem_in \in {PromptA, PromptB}
             /\ paths_out = <<>>
       \/ /\ Apart(FilesAfterCalls(COLLISION_LIMIT - 2))
          /\ stem_in = PromptA
          /\ paths_out = PathsAfterCalls(COLLISION_LIMIT - 2)

\* The calls made since the start of the run of calls.
CallsMade ==
    IF Len(paths_out) >= COLLISION_LIMIT - 2
    THEN Len(paths_out) - (COLLISION_LIMIT - 2)
    ELSE Len(paths_out)

\* A call that reserves the path it returns by creating an empty file.
CallUniqueReserving ==
    /\ pc = "unique"
    /\ CallsMade < MaxCalls
    /\ LET unique == get_unique_filepath(DOMAIN files, stem_in, MP3)
       IN /\ \E output_file_path \in unique.paths :
                /\ paths_out' = Append(paths_out, output_file_path)
                /\ files' = WriteFile(files, output_file_path, Created)
          /\ log' = IF unique.warned
                    THEN Append(log, Entry("warning", "more_than_1000_collisions", 0))
                    ELSE log
    /\ pc' = "returned"
    /\ UNCHANGED <<exit_code, argv, environ, dotenv, csv, resolved_api_key, sfx_client,
                   out_dir_exists, header, prompt_col_idx, duration_col_idx,
                   influence_col_idx, i, prompts_data, pos, generated_count,
                   failed_count, calls>>
    /\ UNCHANGED <<text_in, length_in, name_out, stem_in>>

\* get_unique_filepath(output_dir, stem_in) is called and returns: the
\* warning is logged if the loop gave up, and nothing else happens.
CallUnique ==
    /\ pc = "unique"
    /\ CallsMade < MaxCalls
    /\ LET unique == get_unique_filepath(DOMAIN files, stem_in, MP3)
       IN /\ \E output_file_path \in unique.paths :
                paths_out' = Append(paths_out, output_file_path)
          /\ log' = IF unique.warned
                    THEN Append(log, Entry("warning", "more_than_1000_collisions", 0))
                    ELSE log
    /\ pc' = "returned"
    /\ UNCHANGED <<exit_code, argv, environ, dotenv, csv, resolved_api_key, sfx_client,
                   out_dir_exists, header, prompt_col_idx, duration_col_idx,
                   influence_col_idx, i, prompts_data, pos, generated_count,
                   failed_count, files, calls>>
    /\ UNCHANGED <<text_in, length_in, name_out, stem_in>>

\* The caller creates the file at the path the last call returned.
CreateReturned ==
    /\ pc = "returned"
    /\ files' = WriteFile(files, paths_out[Len(paths_out)], Created)
    /\ pc' = "unique"
    /\ UNCHANGED <<exit_code, argv, environ, dotenv, csv, resolved_api_key, sfx_client,
                   out_dir_exists, header, prompt_col_idx, duration_col_idx,
                   influence_col_idx, i, prompts_data, pos, generated_count,
                   failed_count, calls, log>>
    /\ UNCHANGED utils_io

UniqueNext ==
    \/ CallUnique
    \/ CreateReturned

SpecUnique == InitUnique /\ [][UniqueNext]_vars

----------------------------------------------------------------------------
\* Properties.  What a reference or a cell stands for is stated here by
\* table, cell by cell, and not by the parsers of the model.

\* The errors logged for work items, by position in the log: every one
\* names the row of its item.
ItemErrors == {k \in 1..Len(log) : log[k].level = "error" /\ log[k].row >= 2}

\* The errors logged by the fatal exits: none names a row.
FatalErrors == {k \in 1..Len(log) : log[k].level = "error" /\ log[k].row = 0}

\* The warnings of the given kinds logged for a row (0: for no row).
WarningsOf(kinds, row) ==
    {k \in 1..Len(log) : log[k].level = "warning" /\ log[k].msg \in kinds /\ log[k].row = row}

\* The work items processed so far.
Processed == IF pos = 0 THEN 0 ELSE pos - 1

\* C1: once processing has started, the run ends only after every work
\* item was attempted, whatever failed on the way, and every failure is
\* counted: failed_count is the number of item errors logged.
C1_FailureNeverAborts ==
    pos >= 1 =>
        /\ pc \in {"process", "done"}
        /\ Len(calls) = Processed
        /\ pc = "done" => Len(calls) = Len(prompts_data)
        /\ failed_count = Cardinality(ItemErrors)

\* C1: the first of two items failed in the generic clause, the second
\* was still attempted, and the run is over.
C1_Witness ==
    /\ pc = "done"
    /\ Len(prompts_data) = 2
    /\ Len(calls) = 2
    /\ failed_count >= 1
    /\ \E k \in ItemErrors :
          log[k].row = prompts_data[1].row_num /\ log[k].msg = "Exception"

\* The text of a prompt cell: the cell, less the quotes around it.
TextOf(cell) ==
    IF cell = PromptQuoted THEN <<"A", " ", "b">>
    ELSE IF cell = QuotesOnly THEN <<>>
    ELSE IF cell = PromptInches THEN <<"a">>
    ELSE cell

C3_TallyExact ==
    /\ generated_count + failed_count = Processed
    /\ (pc = "done" /\ pos >= 1) => generated_count + failed_count = Len(prompts_data)

\* C4: a run that has started processing ends with exit code 0.
C4_ExitZeroAfterProcessing ==
    (pc = "done" /\ pos >= 1) => exit_code = 0

\* C4: two rows, a rate-limit failure on the second: 1 generated, 1 failed,
\* exit code 0.
C4_Witness ==
    /\ pc = "done"
    /\ exit_code = 0
    /\ Len(prompts_data) = 2
    /\ generated_count = 1
    /\ failed_count = 1
    /\ \E k \in ItemErrors :
          log[k].row = prompts_data[2].row_num /\ log[k].msg = "ElevenLabsRateLimitError"

\* The references made of digits, and the index each one writes.
NumericRefs == {<<"0">>, <<"1">>, <<"2">>, <<"3">>, <<"7">>, <<"sup2">>}

IndexOf(ref) ==
    CASE ref = <<"0">> -> 0
      [] ref = <<"1">> -> 1
      [] ref = <<"2">> -> 2
      [] ref = <<"3">> -> 3
      [] ref = <<"7">> -> 7
      [] OTHER -> 0 - 1

\* A reference resolves against a header when it is an index inside the
\* header, or else the name of one of its columns.
Resolves(ref, hdr) ==
    IF ref \in NumericRefs
    THEN IndexOf(ref) >= 0 /\ IndexOf(ref) < Len(hdr)
    ELSE \E k \in 1..Len(hdr) : hdr[k] = ref

\* The header has been read and the prompt column reference examined.
PastPromptColumn ==
    header # <<>> /\ pc \notin {"start", "mkdir", "client", "header", "prompt_col"}

\* The input has no header.
NoHeader == csv = <<>> \/ csv[1] = <<>>

\* No source has an API key.
NoApiKey == ~Truthy(argv.api_key) /\ ~Truthy(environ) /\ ~Truthy(dotenv)

\* The input alone makes the run fatal.
FatalInput == NoApiKey \/ NoHeader \/ ~Resolves(argv.prompt_column, csv[1])

\* No file of the output directory was written by this run.
NothingWritten == \A p \in DOMAIN files : files[p] = Old

\* C5: an exit with code 1 comes before any work item is processed: no
\* generate call was made, no file written, no counter moved.  A fatal
\* condition, of the input or met on the way, gives exit code 1.  A
\* generate call is made only once the whole input is loaded, in a run
\* with no fatal condition.
C5_FatalBeforeProcessing ==
    /\ exit_code = 1 =>
          /\ calls = <<>> /\ pos = 0
          /\ generated_count = 0 /\ failed_count = 0
          /\ NothingWritten
          /\ FatalErrors # {}
    /\ (pc = "done" /\ (FatalInput \/ FatalErrors # {})) => exit_code = 1
    /\ calls # <<>> =>
          /\ i = DataRows
          /\ pc \in {"process", "done"}
          /\ exit_code # 1
          /\ ~FatalInput /\ FatalErrors = {}

\* C5: the reader failed after a work item was queued; the run ended with
\* exit code 1 and no call was made.
C5_Witness ==
    /\ pc = "done"
    /\ exit_code = 1
    /\ i >= 1
    /\ prompts_data # <<>>
    /\ calls = <<>>
    /\ NothingWritten

\* C6: a resolved prompt column is the index a numeric reference writes,
\* inside the header, or else the column the reference names; it is
\* resolved before any row is read; a reference that does not resolve ends
\* the run with exit code 1 and no work item.
C6_PromptColumnResolution ==
    /\ prompt_col_idx # 0 - 1 =>
          /\ prompt_col_idx >= 0 /\ prompt_col_idx < Len(header)
          /\ IF argv.prompt_column \in NumericRefs
             THEN prompt_col_idx = IndexOf(argv.prompt_column)
             ELSE header[prompt_col_idx + 1] = argv.prompt_column
    /\ (i > 0 \/ prompts_data # <<>>) => prompt_col_idx # 0 - 1
    /\ PastPromptColumn =>
          IF Resolves(argv.prompt_column, header)
          THEN prompt_col_idx # 0 - 1
          ELSE /\ pc = "done" /\ exit_code = 1
               /\ prompt_col_idx = 0 - 1
               /\ i = 0 /\ prompts_data = <<>> /\ calls = <<>>

\* C6: the reference "1" is taken as index 1 under a header whose column
\* 0 is named "1", and items were read from column 1.
C6_Witness ==
    /\ argv.prompt_column = <<"1">>
    /\ header = Header1T
    /\ prompt_col_idx = 1
    /\ prompts_data # <<>>

\* The optional column references have been examined.
PastOptionalColumns ==
    pc \in {"rows", "process"} \/ (pc = "done" /\ prompt_col_idx # 0 - 1)

DurationColumnWarnings ==
    {"duration_column_invalid_index", "duration_column_index_out_of_range",
     "duration_column_name_not_found"}

InfluenceColumnWarnings ==
    {"influence_column_invalid_index", "influence_column_index_out_of_range",
     "influence_column_name_not_found"}

\* C7: a duration or influence column reference that does not resolve
\* does not end the run: one warning is logged for it, the column is
\* absent and every work item and every call carries the global default.
C7_UnresolvedOptionalColumn ==
    PastOptionalColumns =>
        /\ (Truthy(argv.duration_column) /\ ~Resolves(argv.duration_column, header)) =>
              /\ duration_col_idx = 0 - 1
              /\ Cardinality(WarningsOf(DurationColumnWarnings, 0)) = 1
              /\ \A k \in 1..Len(prompts_data) : prompts_data[k].duration = argv.duration
              /\ \A k \in 1..Len(calls) : calls[k].duration_seconds = argv.duration
        /\ (Truthy(argv.influence_column) /\ ~Resolves(argv.influence_column, header)) =>
              /\ influence_col_idx = 0 - 1
              /\ Cardinality(WarningsOf(InfluenceColumnWarnings, 0)) = 1
              /\ \A k \in 1..Len(prompts_data) :
                    prompts_data[k].influence = argv.prompt_influence
              /\ \A k \in 1..Len(calls) : calls[k].prompt_influence = argv.prompt_influence
        /\ exit_code = 1 =>
              \E k \in FatalErrors : log[k].msg \in {"input_csv_not_found", "error_processing_csv"}

\* C7: the duration reference "7" is out of range and the influence name
\* "i" is not in the header; the run ended with exit code 0 and the row
\* whose cells hold 2.5 and 0.7 was generated with the defaults 6.0 and 0.6.
C7_Witness ==
    /\ pc = "done"
    /\ exit_code = 0
    /\ argv.duration_column = <<"7">>
    /\ argv.influence_column = <<"i">>
    /\ header = Header1T
    /\ Len(calls) = 2
    /\ csv[2] = <<PromptQuoted, <<"2", ".", "5">>, <<"0", ".", "7">>>>
    /\ calls[1].duration_seconds = <<6, 0>>
    /\ calls[1].prompt_influence = <<6, 1>>

\* The cells that write a number, and the number each one writes.
NumberCells == {Half, TwentyTwo, PaddedOne, Zero, TwentyThree}

NumberOf(cell) ==
    CASE cell = Half -> <<5, 1>>
      [] cell = TwentyTwo -> <<22, 0>>
      [] cell = PaddedOne -> <<1, 0>>
      [] cell = Zero -> <<0, 0>>
      [] cell = TwentyThree -> <<23, 0>>

\* The same numbers, in tenths.
TenthsOf(cell) ==
    CASE cell = Half -> 5
      [] cell = TwentyTwo -> 220
      [] cell = PaddedOne -> 10
      [] cell = Zero -> 0
      [] cell = TwentyThree -> 230

\* The cells that are empty after trimming.
EmptyCells == {Empty, Blank}

\* What a row has in a column: "missing" when the row is too short, the
\* cell otherwise.
CellAt(row, col_idx) == IF col_idx < Len(row) THEN row[col_idx + 1] ELSE <<"missing">>

\* The value a work item takes from a cell: the number the cell writes if
\* it lies in lo..hi (in tenths), the global default in every other case.
Resolved(cell, lo, hi, default) ==
    IF cell \in NumberCells /\ TenthsOf(cell) >= lo /\ TenthsOf(cell) <= hi
    THEN NumberOf(cell) ELSE default

\* A warning is due for a cell that is neither empty nor a number in range.
WarningDue(cell, lo, hi) ==
    /\ cell \notin EmptyCells
    /\ ~(cell \in NumberCells /\ TenthsOf(cell) >= lo /\ TenthsOf(cell) <= hi)

DurationRowWarnings ==
    {"invalid_duration_value", "duration_out_of_range", "duration_column_missing"}

InfluenceRowWarnings ==
    {"invalid_influence_value", "influence_out_of_range", "influence_column_missing"}

\* The kind of warning due for a cell.
WarningKind(cell, invalid, out_of_range, missing) ==
    IF cell = <<"missing">> THEN missing
    ELSE IF cell \in NumberCells THEN out_of_range ELSE invalid

\* C8: with a resolved duration column, the duration of every work item
\* is the number of its row's duration cell when that number is in
\* [0.5, 22.0], and the global default otherwise; one warning is logged
\* for the row when the cell is unparseable or out of range, none when it
\* is empty.  Only the row's own cell and the default enter.
C8_DurationPerRow ==
    duration_col_idx # 0 - 1 =>
        \A k \in 1..Len(prompts_data) :
            LET item == prompts_data[k]
                cell == CellAt(csv[item.row_num], duration_col_idx)
                warnings == WarningsOf(DurationRowWarnings, item.row_num)
            IN /\ item.duration = Resolved(cell, 5, 220, argv.duration)
               /\ IF WarningDue(cell, 5, 220)
                  THEN /\ Cardinality(warnings) = 1
                       /\ \A w \in warnings :
                             log[w].msg = WarningKind(cell, "invalid_duration_value",
                                                      "duration_out_of_range",
                                                      "duration_column_missing")
                  ELSE warnings = {}

\* C8: the first row adopted 22, the second row has an empty cell and the
\* default 5.0 with no warning: the 22 of the first row did not carry over.
C8_Witness ==
    /\ duration_col_idx = 1
    /\ Len(csv) = 3 /\ Len(prompts_data) = 2
    /\ csv[2] = <<PromptA, TwentyTwo, Half>> /\ prompts_data[1].duration = <<22, 0>>
    /\ csv[3] = <<PromptA, Empty, Half>> /\ prompts_data[2].duration = <<5, 0>>
    /\ WarningsOf(DurationRowWarnings, 2) = {}
    /\ WarningsOf(DurationRowWarnings, 3) = {}

\* C9: the influence of every work item follows the same rule on the
\* influence cell, with the range [0.0, 1.0] and the global influence;
\* two work items with the same influence cell have the same influence
\* whatever their duration cells are, and conversely.
C9_InfluencePerRow ==
    influence_col_idx # 0 - 1 =>
        /\ \A k \in 1..Len(prompts_data) :
              LET item == prompts_data[k]
                  cell == CellAt(csv[item.row_num], influence_col_idx)
                  warnings == WarningsOf(InfluenceRowWarnings, item.row_num)
              IN /\ item.influence = Resolved(cell, 0, 10, argv.prompt_influence)
                 /\ IF WarningDue(cell, 0, 10)
                    THEN /\ Cardinality(warnings) = 1
                         /\ \A w \in warnings :
                               log[w].msg = WarningKind(cell, "invalid_influence_value",
                                                        "influence_out_of_range",
                                                        "influence_column_missing")
                    ELSE warnings = {}
        /\ \A j, k \in 1..Len(prompts_data) :
              LET a == prompts_data[j]
                  b == prompts_data[k]
              IN /\ CellAt(csv[a.row_num], influence_col_idx)
                      = CellAt(csv[b.row_num], influence_col_idx)
                    => a.influence = b.influence
                 /\ (duration_col_idx # 0 - 1 /\
                     CellAt(csv[a.row_num], duration_col_idx)
                       = CellAt(csv[b.row_num], duration_col_idx))
                    => a.duration = b.duration

\* C9: two rows with the influence cell 0.5, the duration adopted on one
\* and rejected on the other: both have the influence 0.5.
C9_Witness ==
    /\ duration_col_idx = 1 /\ influence_col_idx = 2
    /\ Len(csv) = 3 /\ Len(prompts_data) = 2
    /\ csv[2] = <<PromptA, Half, Half>>
    /\ csv[3] = <<PromptA, TwentyThree, Half>>
    /\ prompts_data[1].duration = <<5, 1>> /\ prompts_data[2].duration = <<5, 0>>
    /\ prompts_data[1].influence = <<5, 1>> /\ prompts_data[2].influence = <<5, 1>>

\* The text of a data record's prompt cell is not empty.
HasPrompt(row) == Len(row) > prompt_col_idx /\ TextOf(row[prompt_col_idx + 1]) # <<>>

\* The work items of row r.
ItemsOf(r) == {k \in 1..Len(prompts_data) : prompts_data[k].row_num = r}

\* C10: a record read so far that has a prompt and is too short for the
\* duration (influence) column gave exactly one work item, with the global
\* default for that parameter and one "column missing" warning; the other
\* parameter follows its own cell.  No such record ends the run: an exit
\* with code 1 is due to the reader alone.
C10_ShortRowKeepsDefault ==
    /\ \A r \in 2..(i + 1) :
          LET row == csv[r]
              d == CellAt(row, duration_col_idx)
              f == CellAt(row, influence_col_idx)
          IN (pc # "start" /\ HasPrompt(row)) =>
                /\ (duration_col_idx # 0 - 1 /\ d = <<"missing">>) =>
                      /\ Cardinality(ItemsOf(r)) = 1
                      /\ \A k \in ItemsOf(r) :
                            /\ prompts_data[k].duration = argv.duration
                            /\ influence_col_idx # 0 - 1 =>
                                  prompts_data[k].influence
                                    = Resolved(f, 0, 10, argv.prompt_influence)
                      /\ Cardinality(WarningsOf({"duration_column_missing"}, r)) = 1
                /\ (influence_col_idx # 0 - 1 /\ f = <<"missing">>) =>
                      /\ Cardinality(ItemsOf(r)) = 1
                      /\ \A k \in ItemsOf(r) :
                            /\ prompts_data[k].influence = argv.prompt_influence
                            /\ duration_col_idx # 0 - 1 =>
                                  prompts_data[k].duration
                                    = Resolved(d, 5, 220, argv.duration)
                      /\ Cardinality(WarningsOf({"influence_column_missing"}, r)) = 1
    /\ (exit_code = 1 /\ i > 0) =>
          \E k \in FatalErrors : log[k].msg = "error_processing_csv"

\* C10: row 2 has the prompt and the duration 0.5 and no influence cell:
\* its work item has the duration 0.5 and the default influence 0.3, and
\* the row after it was read too.
C10_Witness ==
    /\ duration_col_idx = 1 /\ influence_col_idx = 2
    /\ Len(csv) = 3
    /\ csv[2] = <<PromptA, Half>>
    /\ i = 2
    /\ Len(prompts_data) = 2
    /\ prompts_data[1].row_num = 2
    /\ prompts_data[1].duration = <<5, 1>>
    /\ prompts_data[1].influence = <<3, 1>>
    /\ WarningsOf({"influence_column_missing"}, 2) # {}

\* A decimal lies between two others.
Between(lo, v, hi) ==
    /\ lo[1] * Pow10(v[2]) <= v[1] * Pow10(lo[2])
    /\ v[1] * Pow10(hi[2]) <= hi[1] * Pow10(v[2])

\* A work item of the queue is well formed.
ValidItem(item) ==
    /\ item.text # <<>> /\ item.text # None
    /\ item.row_num >= 2
    /\ Between(<<5, 1>>, item.duration, <<22, 0>>)
    /\ Between(<<0, 0>>, item.influence, <<1, 0>>)

\* The queue only grows at its end: the items it has stay as they are.
QueueKept ==
    /\ Len(prompts_data') >= Len(prompts_data)
    /\ \A k \in 1..Len(prompts_data) : prompts_data'[k] = prompts_data[k]

\* C11: every work item of the queue has a non-empty text, a row number
\* of at least 2, a duration in [0.5, 22.0] and an influence in [0.0, 1.0];
\* no step changes an item of the queue, and the generate call of an item
\* receives the item's text, duration and influence as they were queued.
C11_WorkItemInvariant ==
    /\ [](\A k \in 1..Len(prompts_data) : ValidItem(prompts_data[k]))
    /\ [](\A k \in 1..Len(calls) :
             /\ k <= Len(prompts_data)
             /\ calls[k].text = prompts_data[k].text
             /\ calls[k].duration_seconds = prompts_data[k].duration
             /\ calls[k].prompt_influence = prompts_data[k].influence)
    /\ [][QueueKept]_vars

\* C11: the row "a", "x", "1.5" with both columns resolved: neither cell
\* is adopted, and the call of its item had the defaults 5.0 and 0.3.
C11_Witness ==
    /\ duration_col_idx = 1 /\ influence_col_idx = 2
    /\ Len(csv) = 3 /\ csv[3] = <<PromptA, Unparseable, <<"1", ".", "5">>>>
    /\ Len(prompts_data) = 2 /\ Len(calls) = 2
    /\ prompts_data[1].duration = <<25, 1>> /\ prompts_data[1].influence = <<7, 1>>
    /\ calls[2] = [text |-> <<"a">>, duration_seconds |-> <<5, 0>>,
                   prompt_influence |-> <<3, 1>>]

\* The warnings that report a skipped row.
SkipWarnings == {"skipping_empty_row", "skipping_malformed_row", "skipping_empty_prompt"}

\* Why a data record gives no work item: "" when it gives one.
SkipReason(row) ==
    IF Len(row) = 0 THEN "skipping_empty_row"
    ELSE IF Len(row) < prompt_col_idx + 1 THEN "skipping_malformed_row"
    ELSE IF TextOf(row[prompt_col_idx + 1]) = <<>> THEN "skipping_empty_prompt"
    ELSE ""

NoPromptsNotices ==
    {k \in 1..Len(log) : log[k].level = "info" /\ log[k].msg = "no_valid_prompts"}

\* The run is over, the reader gave every record without failing, and no
\* record gives a work item.
LoadedNothing ==
    /\ pc = "done"
    /\ prompt_col_idx # 0 - 1
    /\ i = Len(csv) - 1
    /\ \A r \in 2..Len(csv) : SkipReason(csv[r]) # ""
    /\ ~\E k \in FatalErrors : log[k].msg = "error_processing_csv"

\* C13: a run whose loading gave no work item ends with exit code 0 and
\* one "no prompts" notice, no error logged, no generate call made, the
\* output directory as it was; processing never starts on an empty queue
\* and the notice is logged in no other run.
C13_NoPromptsIsSuccess ==
    /\ LoadedNothing =>
          /\ exit_code = 0
          /\ Cardinality(NoPromptsNotices) = 1
          /\ \A k \in 1..Len(log) : log[k].level # "error"
          /\ calls = <<>>
          /\ NothingWritten
          /\ pos = 0 /\ generated_count = 0 /\ failed_count = 0
    /\ pc = "process" => prompts_data # <<>>
    /\ NoPromptsNotices # {} => (prompts_data = <<>> /\ pc = "done" /\ exit_code = 0)

\* C13: two data records, one with no field and one with an empty prompt:
\* both skipped, exit code 0 with the notice, a.mp3 of the output
\* directory untouched.
C13_Witness ==
    /\ LoadedNothing
    /\ Len(csv) = 3
    /\ csv[2] = <<>> /\ Len(csv[3]) = 3
    /\ exit_code = 0
    /\ NoPromptsNotices # {}
    /\ DOMAIN files = {PromptA \o MP3}

\* The fatal errors of the given kinds logged.
FatalOf(kinds) == {k \in FatalErrors : log[k].msg \in kinds}

\* C14: on a file that is empty or whose first line is empty, the run
\* never gets past the reading of the header: no column reference is
\* examined, no data record is read, no warning names a row, no work item
\* is queued and no call is made; the run ends with exit code 1, and when
\* the reader itself did not fail the error logged is that of the missing
\* header.
C14_NoHeaderIsFatal ==
    NoHeader =>
        /\ pc \in {"start", "mkdir", "client", "header", "done"}
        /\ header = <<>>
        /\ prompt_col_idx = 0 - 1
        /\ i = 0 /\ prompts_data = <<>> /\ calls = <<>> /\ pos = 0
        /\ \A k \in 1..Len(log) : log[k].row = 0
        /\ NothingWritten
        /\ pc = "done" =>
              /\ exit_code = 1
              /\ FatalErrors # {}
              /\ FatalOf({"prompt_column_invalid_index", "prompt_column_index_out_of_range",
                          "prompt_column_name_not_found"}) = {}
              /\ sfx_client # {} =>
                    \/ FatalOf({"csv_empty_or_no_header"}) # {}
                    \/ FatalErrors = FatalOf({"input_csv_not_found"})
                    \/ FatalErrors = FatalOf({"error_processing_csv"})

\* C14: an empty first line followed by the record "a": exit code 1 with
\* the header error, the record never read.
C14_Witness ==
    /\ pc = "done"
    /\ exit_code = 1
    /\ Len(csv) = 2 /\ csv[1] = <<>> /\ csv[2] = <<PromptA>>
    /\ i = 0 /\ prompts_data = <<>>
    /\ FatalOf({"csv_empty_or_no_header"}) # {}

\* The characters a file name must not have: the space and \ / : * ? " < > |.
Forbidden == {" ", "\\", "/", ":", "*", "?", "\"", "<", ">", "|"}

UpperCaseLetters ==
    {"A", "B", "C", "D", "E", "F", "G", "H", "I", "J", "K", "L", "M",
     "N", "O", "P", "Q", "R", "S", "T", "U", "V", "W", "X", "Y", "Z"}

\* C15: whatever the text (empty and absent included) and max_length are,
\* what sanitize_filename returns has no space and none of the characters
\* \ / : * ? " < > |, has no upper-case letter, and has at most max_length
\* characters.
C15_SanitizeOutputSafe ==
    pc = "sanitized" =>
        /\ \A k \in 1..Len(name_out) : name_out[k] \notin Forbidden
        /\ \A k \in 1..Len(name_out) : name_out[k] \notin UpperCaseLetters
        /\ Len(name_out) <= length_in

\* The characters of the texts that the sanitising steps remove or trim.
Removed == {" ", "?", "_", ".", "-"}

Numbered(stem, k) ==
    IF k = 0 THEN stem \o <<".", "m", "p", "3">>
    ELSE stem \o <<"_">> \o str(k) \o <<".", "m", "p", "3">>

\* The path the last call returned.
LastPath == paths_out[Len(paths_out)]

\* The numbers from 0 to 999 whose name does not exist for the stem.
FreeNumbers == {k \in 0..999 : Numbered(stem_in, k) \notin DOMAIN files}

\* The names a call makes from a random suffix.
RandomNames == {stem_in \o <<"_">> \o h \o <<".", "m", "p", "3">> : h \in HexSuffixes}

\* C17: when a call has returned, the path is stem.mp3 if that did not
\* exist; if it did, and as long as a name numbered up to 999 is free, the
\* path is stem_k.mp3 for the least k >= 1 whose name did not exist; in
\* both cases the path returned does not exist.
C17_FirstFreePath ==
    pc = "returned" =>
        /\ 0 \in FreeNumbers => LastPath = Numbered(stem_in, 0)
        /\ (0 \notin FreeNumbers /\ FreeNumbers # {}) =>
              \E k \in FreeNumbers :
                  /\ k >= 1
                  /\ \A m \in 1..(k - 1) : m \notin FreeNumbers
                  /\ LastPath = Numbered(stem_in, k)
        /\ FreeNumbers # {} => LastPath \notin DOMAIN files

\* C17: a.mp3 and a_1.mp3 exist, and the call returned a_2.mp3.
C17_Witness ==
    /\ pc = "returned"
    /\ stem_in = <<"a">>
    /\ DOMAIN files = {<<"a", ".", "m", "p", "3">>, <<"a", "_", "1", ".", "m", "p", "3">>}
    /\ paths_out = <<<<"a", "_", "2", ".", "m", "p", "3">>>>

\* The calls were made in a directory that had no name of the stem before
\* the first of them: every file with such a name, numbered up to the
\* limit of the loop and past it, was created after a call.
FreshForStem ==
    \A k \in 0..1001 :
        Numbered(stem_in, k) \in DOMAIN files => files[Numbered(stem_in, k)] # Old

C19_CallLeavesFilesystem ==
    [][pc = "unique" => (files' = files /\ out_dir_exists' = out_dir_exists)]_vars

\* C19: every name the loop tests exists, the call returned a name made
\* of a random suffix after the warning, and no file has that name.
C19_Witness ==
    /\ pc = "returned"
    /\ FreeNumbers = {}
    /\ LastPath \in RandomNames
    /\ LastPath \notin DOMAIN files
    /\ WarningsOf({"more_than_1000_collisions"}, 0) # {}
    /\ \A p \in DOMAIN files : files[p] = Old

\* The credential of a run, by precedence: the --api-key value, then the
\* environment variable, then the .env file, which counts only when the
\* environment does not have the variable; None when there is no key.
Credential ==
    IF argv.api_key = <<"k", "c">> THEN <<"k", "c">>
    ELSE IF environ = <<"k", "e">> THEN <<"k", "e">>
    ELSE IF environ # <<>> /\ dotenv = <<"k", "d">> THEN <<"k", "d">>
    ELSE None

\* The key is resolved and used as the precedence says.
CredentialUsed ==
    pc # "start" =>
        /\ resolved_api_key = Credential
        /\ \A c \in sfx_client : c.api_key = Credential /\ c.api_key # None
        /\ (pc \notin {"mkdir", "client", "done"}) => sfx_client # {}
        /\ Credential = None =>
              /\ pc = "done"
              /\ exit_code = 1
              /\ sfx_client = {}
              /\ calls = <<>>
              /\ FatalOf({"api_key_not_found"}) # {}

\* A variable the environment has keeps its value.
EnvironmentKept == environ # None => environ' = environ

\* C20: the client is constructed with the --api-key value when one is
\* given, else with the environment variable when it holds a key, else
\* with the key of the .env file; the .env file never replaces a variable
\* the environment already has; with no key from any of them the run ends
\* with exit code 1 and no client is constructed.
C20_CredentialPrecedence ==
    /\ []CredentialUsed
    /\ [][EnvironmentKept]_vars

\* C20: no --api-key, the environment variable and the .env file both
\* holding a key: the client has the key of the environment.
C20_Witness ==
    /\ argv.api_key = None
    /\ dotenv = <<"k", "d">>
    /\ environ = <<"k", "e">>
    /\ sfx_client = {[api_key |-> <<"k", "e">>, max_retries |-> 3]}

\* The places of the driver after the output directory was checked or
\* created and before the run is over.
PastValidating ==
    pc \in {"client", "header", "prompt_col", "duration_col", "influence_col",
            "rows", "process"}

\* The rank of a place of the driver in the order of its phases.
PhaseRank(p) ==
    CASE p = "start" -> 1
      [] p = "mkdir" -> 2
      [] p = "client" -> 3
      [] p \in {"header", "prompt_col", "duration_col", "influence_col", "rows"} -> 4
      [] p = "process" -> 5
      [] OTHER -> 6

\* C21: the phases come in the order Initializing, Validating, Loading,
\* Processing, Reporting: the output directory is checked or created only
\* when the client has been constructed, the input is read only when the
\* output directory exists, and a generate call is made only when the
\* input has been read to its end.
C21_PhaseOrder ==
    /\ PastValidating => sfx_client # {}
    /\ PhaseRank(pc) >= 4 /\ header # <<>> => out_dir_exists
    /\ calls # <<>> => (pc \in {"process", "done"} /\ i = Len(csv) - 1)

\* A cell less one pair of double quotes around it, when it has one.
SinglePairStripped(cell) ==
    IF Len(cell) >= 2 /\ cell[1] = "\"" /\ cell[Len(cell)] = "\""
    THEN SubSeq(cell, 2, Len(cell) - 1)
    ELSE cell

\* C22: the text of every work item is the prompt cell of its row less
\* one pair of surrounding double quotes, when the cell starts and ends
\* with one; any other quote of the cell is in the text.
C22_SinglePairOfQuotes ==
    \A k \in 1..Len(prompts_data) :
        LET row == csv[prompts_data[k].row_num]
        IN prompts_data[k].text = SinglePairStripped(row[prompt_col_idx + 1])

\* The data records read so far that have a field and fewer fields than
\* the header has columns.
ShortRecords == {r \in 2..(i + 1) : Len(csv[r]) > 0 /\ Len(csv[r]) < Len(header)}

InteriorHyphen(s) ==
    \E j, k, m \in 1..Len(s) :
        /\ j < k /\ k < m
        /\ s[k] = "-"
        /\ s[j] \in {"A", "b", "1", "a", "t", "e", "s"}
        /\ s[m] \in {"A", "b", "1", "a", "t", "e", "s"}

FreeOf1001 == {k \in 0..1000 : Numbered(stem_in, k) \notin DOMAIN files}

\* The calls so far that returned a name made of a random suffix.
RandomReturns == {n \in 1..Len(paths_out) : paths_out[n] \in RandomNames}

\* C25: a call gives up the numbered names, logs the warning and returns
\* a name made of a random suffix only when stem.mp3 and stem_1.mp3 to
\* stem_1000.mp3 all exist; when one of these 1001 names is free the call
\* returns the first free one and logs no warning.
C25_FallbackAfter1001Collisions ==
    /\ Cardinality(WarningsOf({"more_than_1000_collisions"}, 0)) = Cardinality(RandomReturns)
    /\ pc = "returned" =>
          IF FreeOf1001 = {}
          THEN LastPath \in RandomNames
          ELSE \E k \in FreeOf1001 :
                  /\ \A m \in 0..(k - 1) : m \notin FreeOf1001
                  /\ LastPath = Numbered(stem_in, k)

\* The text before the last underscore of s, which has one.
BeforeLastUnderscore(s) ==
    LET at == {k \in 1..Len(s) : s[k] = "_"}
    IN SubSeq(s, 1, (CHOOSE k \in at : \A m \in at : m <= k) - 1)

\* The first n characters of s cut back to before the last underscore when
\* one of the last 10 of them is an underscore, then trimmed.
CutAtUnderscore(s, n) ==
    LET cut == SubSeq(s, 1, n)
        last10 == SubSeq(cut, IF n > 10 THEN n - 9 ELSE 1, n)
        back == IF \E k \in 1..Len(last10) : last10[k] = "_"
                THEN BeforeLastUnderscore(cut) ELSE cut
    IN strip(back, {"_", ".", "-"})

\* s is a prefix of t.
IsPrefix(s, t) == Len(s) <= Len(t) /\ s = SubSeq(t, 1, Len(s))

\* C26: when the sanitised text is longer than max_length, what
\* sanitize_filename returns is its first max_length characters, cut back
\* to before their last underscore if one of the last 10 of them is an
\* underscore, and trimmed of underscores, periods and hyphens at both
\* ends, or "generated_sfx_truncated" if nothing is left; the result is a
\* prefix of the sanitised text unless it is that constant.
C26_TruncationAtUnderscore ==
    (pc = "sanitized" /\ text_in # None /\ text_in # <<>>
       /\ Len(Sanitized(text_in)) > length_in) =>
        LET expected == CutAtUnderscore(Sanitized(text_in), length_in)
        IN IF expected = <<>>
           THEN name_out = <<"g", "e", "n", "e", "r", "a", "t", "e", "d", "_", "s", "f", "x",
                             "_", "t", "r", "u", "n", "c", "a", "t", "e", "d">>
           ELSE /\ name_out = expected
                /\ IsPrefix(name_out, Sanitized(text_in))

\* C27: no step of a run writes to a path that exists: every file of the
\* output directory, there before the run or written for an earlier item,
\* is still there with the same content after each step.
C27_NeverOverwrites ==
    [][\A p \in DOMAIN files : p \in DOMAIN files' /\ files'[p] = files[p]]_vars

\* The paths whose content was written by the run.
WrittenByRun == {p \in DOMAIN files : files[p] # Old}

\* C28: at the end of a run the files the run wrote are as many as
\* generated_count says, and each one holds the bytes returned by one call
\* of the collaborator: no item leaves an empty or partial file.
C28_FilesMatchGenerated ==
    (pc = "done" /\ pos >= 1) =>
        /\ Cardinality(WrittenByRun) = generated_count
        /\ \A p \in WrittenByRun : \E n \in 1..Len(calls) : files[p] = Audio(n)

====
